---- MODULE Spec2Model ----
(***************************************************************************)
(* Flat Earth Explorer (app.js): the seeded generator, the azimuthal       *)
(* equidistant projection helpers, the ornament-field construction and the *)
(* underside fade, as state machines over exact integer arithmetic.        *)
(*                                                                         *)
(* Numbers.  JavaScript numbers are doubles.  Every integer the generator  *)
(* touches is below 2^53, so its arithmetic is exact; TLC integers are 32  *)
(* bits wide, so unsigned quantities wider than 31 bits are kept as        *)
(* little-endian sequences of base-256 limbs.  Real-valued results are     *)
(* kept as exact rationals (numerator, denominator) or in the fixed-point  *)
(* units named where they are introduced.                                  *)
(***************************************************************************)
EXTENDS Integers, Sequences, FiniteSets, TLC

VARIABLES
  gseed,    \* _seed of the generator exercised on its own (signed 32-bit)
  gcall,    \* the last generator call: its kind, arguments and result
  gdraws,   \* number of draws made since the start
  run,      \* run[r]: the state of construction run r (a page load)
  now,      \* the wall clock, an input no construction reads
  call,     \* the last call of a projection, shading or fade function
  pass,     \* the displacement pass under way over one base shape
  ui,       \* the page: loader, camera, texture loads, visibility flags
  maps,     \* the Maps JS script elements and the street panorama
  toast     \* the ice toast and its timers

rngVars == <<gseed, gcall, gdraws>>

buildVars == <<run, now>>

domVars == <<maps, toast>>

callVars == <<call, pass, ui, maps, toast>>

vars == <<gseed, gcall, gdraws, run, now, call, pass, ui, maps, toast>>

(***************************************************************************)
(* Unsigned big integers: little-endian sequences of limbs in 0..255.      *)
(***************************************************************************)
Base == 256

RECURSIVE ToBig(_)
ToBig(n) == IF n = 0 THEN <<>> ELSE <<n % Base>> \o ToBig(n \div Base)

Limb(a, i) == IF i <= Len(a) THEN a[i] ELSE 0

MaxOf(x, y) == IF x >= y THEN x ELSE y

MinOf(x, y) == IF x <= y THEN x ELSE y

RECURSIVE BigTrim(_)
BigTrim(a) ==
  IF Len(a) = 0 THEN a
  ELSE IF a[Len(a)] = 0 THEN BigTrim(SubSeq(a, 1, Len(a) - 1)) ELSE a

RECURSIVE BigAddFrom(_, _, _, _)
BigAddFrom(a, b, i, carry) ==
  IF i > MaxOf(Len(a), Len(b))
  THEN (IF carry = 0 THEN <<>> ELSE <<carry>>)
  ELSE LET t == Limb(a, i) + Limb(b, i) + carry
       IN  <<t % Base>> \o BigAddFrom(a, b, i + 1, t \div Base)

BigAdd(a, b) == BigTrim(BigAddFrom(a, b, 1, 0))

\* a - b for a >= b
RECURSIVE BigSubFrom(_, _, _, _)
BigSubFrom(a, b, i, borrow) ==
  IF i > Len(a) THEN <<>>
  ELSE LET t == Limb(a, i) - Limb(b, i) - borrow
       IN  IF t < 0 THEN <<t + Base>> \o BigSubFrom(a, b, i + 1, 1)
                    ELSE <<t>> \o BigSubFrom(a, b, i + 1, 0)

BigSub(a, b) == BigTrim(BigSubFrom(a, b, 1, 0))

\* a * k for a small non-negative integer k (k < 2^22)
RECURSIVE BigMulSmallFrom(_, _, _, _)
BigMulSmallFrom(a, k, i, carry) ==
  IF i > Len(a) THEN ToBig(carry)
  ELSE LET t == a[i] * k + carry
       IN  <<t % Base>> \o BigMulSmallFrom(a, k, i + 1, t \div Base)

BigMulSmall(a, k) == BigTrim(BigMulSmallFrom(a, k, 1, 0))

RECURSIVE BigMulFrom(_, _, _)
BigMulFrom(a, b, j) ==
  IF j > Len(b) THEN <<>>
  ELSE BigAdd(BigMulSmall(a, b[j]), <<0>> \o BigMulFrom(a, b, j + 1))

BigMul(a, b) == BigTrim(BigMulFrom(a, b, 1))

RECURSIVE BigPow(_, _)
BigPow(a, n) ==
  IF n = 0 THEN <<1>>
  ELSE IF n % 2 = 0 THEN LET half == BigPow(a, n \div 2) IN BigMul(half, half)
  ELSE BigMul(a, BigPow(a, n - 1))

\* -1, 0, 1 as a < b, a = b, a > b; limbs compared from the top down
RECURSIVE BigCmpFrom(_, _, _)
BigCmpFrom(a, b, i) ==
  IF i = 0 THEN 0
  ELSE IF Limb(a, i) < Limb(b, i) THEN -1
  ELSE IF Limb(a, i) > Limb(b, i) THEN 1
  ELSE BigCmpFrom(a, b, i - 1)

BigCmp(a, b) == BigCmpFrom(a, b, MaxOf(Len(a), Len(b)))

BigLess(a, b) == BigCmp(a, b) = -1

BigLeq(a, b) == BigCmp(a, b) # 1

BigEq(a, b) == BigCmp(a, b) = 0

BigIsZero(a) == BigTrim(a) = <<>>

\* the low 32 bits (four limbs) of a
Low32(a) == BigTrim(<<Limb(a, 1), Limb(a, 2), Limb(a, 3), Limb(a, 4)>>)

Two32 == <<0, 0, 0, 0, 1>>

(***************************************************************************)
(* The seeded generator (app.js 27-32).                                    *)
(***************************************************************************)
LcgA == ToBig(1664525)

LcgC == ToBig(1013904223)

Mask32 == <<255, 255, 255, 255>>          \* 0xffffffff

\* x >>> 0 : the unsigned reading of a signed 32-bit value
Uint32(s) ==
  BigTrim(<<s % 256, (s \div 256) % 256, (s \div 65536) % 256,
            (s \div 16777216) % 256>>)

\* the signed 32-bit value whose unsigned reading is u (u < 2^32)
Int32(u) ==
  Limb(u, 1) + 256 * Limb(u, 2) + 65536 * Limb(u, 3)
    + 16777216 * (IF Limb(u, 4) >= 128 THEN Limb(u, 4) - 256 ELSE Limb(u, 4))

\* |s| of a signed 32-bit value
Magnitude(s) == IF s >= 0 THEN Uint32(s) ELSE BigSub(Two32, Uint32(s))

\* _seed * 1664525 + 1013904223 as the exact (signed) number JS computes
SeedProduct(s) ==
  LET m == BigMul(Magnitude(s), LcgA)
  IN  IF s >= 0 THEN [neg |-> FALSE, mag |-> BigAdd(m, LcgC)]
      ELSE IF BigLeq(m, LcgC) THEN [neg |-> FALSE, mag |-> BigSub(LcgC, m)]
      ELSE [neg |-> TRUE, mag |-> BigSub(m, LcgC)]

\* p & 0xffffffff : ToInt32 of p, i.e. p modulo 2^32 read as signed
AndMask32(p) ==
  IF ~p.neg THEN Int32(Low32(p.mag))
  ELSE IF BigIsZero(Low32(p.mag)) THEN 0
  ELSE Int32(BigSub(Two32, Low32(p.mag)))

\* the state seededRand leaves in _seed
SeedAfter(s) == AndMask32(SeedProduct(s))

\* the value seededRand returns when it leaves state s in _seed
RandDenominator == Mask32

RandValue(s) == [num |-> Uint32(s), den |-> RandDenominator]

\* rng(a, b) = a + seededRand() * (b - a), for a < b in integer units:
\* the result is a + num/den units, with num/den >= 0
rng(a, b, s) ==
  [base |-> a,
   num  |-> BigMul(RandValue(s).num, ToBig(b - a)),
   den  |-> RandValue(s).den]

\* value < c, value <= c, value >= c for a result of rng and an integer c
RngLess(w, c) == c > w.base /\ BigLess(w.num, BigMulSmall(w.den, c - w.base))

RngLeq(w, c) == c >= w.base /\ BigLeq(w.num, BigMulSmall(w.den, c - w.base))

RngGeq(w, c) == c <= w.base \/ BigLeq(BigMulSmall(w.den, c - w.base), w.num)

(***************************************************************************)
(* The ring table of buildIceMountains (app.js 179-183), lengths in        *)
(* thousandths of a scene unit.                                            *)
(***************************************************************************)
Rings ==
  << [count |-> 80,  ringR |-> 10050, minH |-> 1400, maxH |-> 3800,
      minBaseR |-> 220, maxBaseR |-> 550],
     [count |-> 130, ringR |-> 9500,  minH |-> 250,  maxH |-> 1500,
      minBaseR |-> 70,  maxBaseR |-> 220],
     [count |-> 55,  ringR |-> 10700, minH |-> 300,  maxH |-> 1000,
      minBaseR |-> 80,  maxBaseR |-> 240] >>

NumRings == Len(Rings)

\* the constant argument pairs rng is called with, in thousandths:
\* angle jitter, radial jitter, rotation.z, rotation.x, heights, base radii
\* floor(v * k) for a draw v and a small k
FloorTimes(v, k) ==
  CHOOSE q \in 0..k :
    /\ BigLeq(BigMulSmall(v.den, q), BigMulSmall(v.num, k))
    /\ q < k => BigLess(BigMulSmall(v.num, k), BigMulSmall(v.den, q + 1))

\* segs = 3 + Math.floor(seededRand() * 4) (app.js 191)
PolygonOrder(v) == 3 + FloorTimes(v, 4)

RngArgs ==
  {<<-50, 50>>, <<-350, 350>>, <<-200, 200>>, <<-70, 70>>}
    \cup {<<Rings[k].minH, Rings[k].maxH>> : k \in 1..NumRings}
    \cup {<<Rings[k].minBaseR, Rings[k].maxBaseR>> : k \in 1..NumRings}

(***************************************************************************)
(* The generator on its own.  The recurrence has full period (the          *)
(* increment is odd and the multiplier is 1 modulo 4), so every 32-bit     *)
(* state follows seed 42 after some number of draws; the states below are  *)
(* the two seeds of the source (42; 137 at app.js 1512), the extremes of   *)
(* the signed and unsigned readings, and the states one, two and three     *)
(* draws before 0xffffffff (draws 827130180..827130182 after seed 42) and  *)
(* one draw before 0.                                                      *)
(***************************************************************************)
SeedSamples ==
  {42, 137, 0, -1, 2147483647, -2147483647 - 1,
   653637408, -1814103163, -1589422786, 634785765}

MaxDraws == 3

NoCall == [fn |-> "none"]

\* the generator, the constructions and the function calls at rest
RngIdle ==
  /\ gseed = 42
  /\ gcall = NoCall
  /\ gdraws = 0

\* no shape under construction, the page not yet loaded
NoPass == [shape |-> "none"]

NoUi == [phase |-> "unloaded"]

\* the street view and the toast not in use
NoMaps == [phase |-> "unused"]

NoToast == [phase |-> "unused"]

CallIdle ==
  /\ call = NoCall
  /\ pass = NoPass
  /\ ui = NoUi
  /\ maps = NoMaps
  /\ toast = NoToast

RngInit ==
  /\ gseed \in SeedSamples
  /\ gcall = NoCall
  /\ gdraws = 0

\* a direct call seededRand(), as at app.js 191, and the polygon order
\* computed from it there
CallSeededRand ==
  /\ UNCHANGED <<buildVars, callVars>>
  /\ gdraws < MaxDraws
  /\ gseed' = SeedAfter(gseed)
  /\ gcall' = [fn |-> "seededRand", before |-> gseed,
               ret |-> RandValue(SeedAfter(gseed)),
               segs |-> PolygonOrder(RandValue(SeedAfter(gseed)))]
  /\ gdraws' = gdraws + 1

\* a call rng(a, b), as at app.js 188-190, 212-216
CallRng ==
  /\ UNCHANGED <<buildVars, callVars>>
  /\ gdraws < MaxDraws
  /\ \E ab \in RngArgs :
       /\ gseed' = SeedAfter(gseed)
       /\ gcall' = [fn |-> "rng", before |-> gseed, a |-> ab[1], b |-> ab[2],
                    ret |-> RandValue(SeedAfter(gseed)),
                    val |-> rng(ab[1], ab[2], SeedAfter(gseed))]
  /\ gdraws' = gdraws + 1

RngNext == CallSeededRand \/ CallRng

(***************************************************************************)
(* buildIceMountains (app.js 173-222), one step per generator draw.        *)
(* A run is one execution of the script: _seed, the loop counters, the     *)
(* instance under construction and the meshes added so far.                *)
(***************************************************************************)
RunIds == {1, 2}

\* the seed of app.js 27; the variant takes it from the clock
InitialSeedFromClock == 42 + now

InitialSeed == 42

NoValue == [num |-> <<>>, den |-> <<1>>]

NoRng == [base |-> 0, num |-> <<>>, den |-> <<1>>]

NoOffset == [neg |-> FALSE, num |-> <<>>, den |-> <<1>>]

NoVert == [idx |-> 0, inf |-> 0, dx |-> NoOffset, dz |-> NoOffset, dy |-> NoValue]

NoInst ==
  [ring |-> 0, slot |-> 0, count |-> 1, jit |-> NoRng, h |-> NoRng,
   base |-> NoRng, segs |-> 0, mat |-> "none", r |-> NoRng,
   rotY |-> NoValue, rotZ |-> NoRng, rotX |-> NoRng]

\* a run before the script has been evaluated
Unstarted ==
  [pc |-> "unstarted", seed |-> 0, ri |-> 1, i |-> 0, v |-> 0, nVerts |-> 0,
   draws |-> 0, first |-> 0, ret |-> NoValue, inst |-> NoInst,
   vert |-> NoVert, meshes |-> 0, last |-> NoInst]

\* one call of seededRand inside a run
Draw(rec) ==
  LET s2 == SeedAfter(rec.seed)
  IN  [rec EXCEPT !.seed = s2, !.draws = @ + 1, !.ret = RandValue(s2)]

\* angle jitter rng(-0.05, 0.05) of app.js 188, in thousandths of a radian
AngleJitterWide(s) == rng(-500, 500, s)

AngleJitter(s) == rng(-50, 50, s)

\* THREE.ConeGeometry(base, h, segs): segs+1 tip vertices and segs+1 base
\* vertices of the side, then segs centre and segs+1 rim vertices of the cap
VertexCount(segs) == 4 * segs + 3

\* inf = 1 - max(0, (vy + h/2) / h): 0 for a tip vertex (vy = h/2), 1 for a
\* base vertex (vy = -h/2)
NaN == -1

\* pos.getY(v) of the undisplaced cone: h/2 on the tip row, -h/2 elsewhere
ConeY(v, segs, h) == IF v <= segs THEN h \div 2 ELSE -(h \div 2)

\* app.js 199; 0/0 is NaN and Math.max(0, NaN) is NaN
InfOfInverted(vy, h) ==
  IF h = 0 THEN NaN ELSE MaxOf(0, (vy + h \div 2) \div h)

InfOf(vy, h) ==
  IF h = 0 THEN NaN ELSE 1 - MaxOf(0, (vy + h \div 2) \div h)

Influence(v, segs) == InfOf(ConeY(v, segs, 2), 2)

\* rng(-base * 0.40, base * 0.40) * inf as a signed fraction of base * 0.40:
\* (2 * draw - 1) * inf
JitterOffset(v, inf) ==
  LET twice == BigMulSmall(v.num, 2)
      neg   == BigLess(twice, v.den)
  IN  [neg |-> neg,
       num |-> BigMulSmall(IF neg THEN BigSub(v.den, twice)
                                  ELSE BigSub(twice, v.den), inf),
       den |-> v.den]

\* norm = (h - minH) / (maxH - minH) as an exact rational
Norm(h, minH, maxH) ==
  [num |-> BigAdd(BigMulSmall(h.den, h.base - minH), h.num),
   den |-> BigMulSmall(h.den, maxH - minH)]

\* n > t/100 for a rational n
RatAbove(n, t) == BigLess(BigMulSmall(n.den, t), BigMulSmall(n.num, 100))

\* n >= t/100
RatAtLeast(n, t) == BigLeq(BigMulSmall(n.den, t), BigMulSmall(n.num, 100))

\* app.js 207: the material tier of a normalized height; the variant takes
\* each threshold inclusively
MaterialInclusive(n) ==
  IF RatAtLeast(n, 65) THEN "snow"
  ELSE IF RatAtLeast(n, 38) THEN "ice"
  ELSE IF RatAtLeast(n, 18) THEN "rock"
  ELSE "shadow"

Material(n) ==
  IF RatAbove(n, 65) THEN "snow"
  ELSE IF RatAbove(n, 38) THEN "ice"
  ELSE IF RatAbove(n, 18) THEN "rock"
  ELSE "shadow"

BuildIdle ==
  /\ run = [r \in RunIds |-> Unstarted]
  /\ now = 0

BuildInit == BuildIdle /\ RngIdle /\ CallIdle

\* the script is evaluated: let _seed = 42, and the construction begins
Start(r) ==
  /\ UNCHANGED <<now, rngVars, callVars>>
  /\ run[r].pc = "unstarted"
  /\ run' = [run EXCEPT ![r] = [Unstarted EXCEPT !.pc = "angle", !.seed = InitialSeed]]

DrawAngle(r) ==
  /\ UNCHANGED <<now, rngVars, callVars>>
  /\ run[r].pc = "angle"
  /\ \E d \in {Draw(run[r])} :
         run' = [run EXCEPT ![r] =
           [d EXCEPT !.pc = "h", !.first = run[r].draws,
                     !.inst = [NoInst EXCEPT !.ring = d.ri, !.slot = d.i,
                                             !.count = Rings[d.ri].count,
                                             !.jit = AngleJitter(d.seed)]]]

DrawHeight(r) ==
  /\ UNCHANGED <<now, rngVars, callVars>>
  /\ run[r].pc = "h"
  /\ \E d \in {Draw(run[r])} :
         run' = [run EXCEPT ![r] =
           [d EXCEPT !.pc = "base",
                     !.inst.h = rng(Rings[d.ri].minH, Rings[d.ri].maxH, d.seed)]]

DrawBase(r) ==
  /\ UNCHANGED <<now, rngVars, callVars>>
  /\ run[r].pc = "base"
  /\ \E d \in {Draw(run[r])} :
         run' = [run EXCEPT ![r] =
           [d EXCEPT !.pc = "segs",
                     !.inst.base = rng(Rings[d.ri].minBaseR, Rings[d.ri].maxBaseR, d.seed)]]

DrawSegs(r) ==
  /\ UNCHANGED <<now, rngVars, callVars>>
  /\ run[r].pc = "segs"
  /\ \E d \in {Draw(run[r])} :
       LET segs == PolygonOrder(d.ret)
       IN  run' = [run EXCEPT ![r] =
           [d EXCEPT !.pc = "vx", !.inst.segs = segs, !.v = 0,
                     !.nVerts = VertexCount(segs), !.vert = NoVert]]

DisplaceX(r) ==
  /\ UNCHANGED <<now, rngVars, callVars>>
  /\ run[r].pc = "vx"
  /\ \E d \in {Draw(run[r])} :
         run' = [run EXCEPT ![r] =
           [d EXCEPT !.pc = "vz",
                     !.vert = [NoVert EXCEPT !.idx = d.v,
                                             !.inf = Influence(d.v, d.inst.segs),
                                             !.dx = JitterOffset(d.ret, Influence(d.v, d.inst.segs))]]]

DisplaceZ(r) ==
  /\ UNCHANGED <<now, rngVars, callVars>>
  /\ run[r].pc = "vz"
  /\ \E d \in {Draw(run[r])} :
         run' = [run EXCEPT ![r] =
           [d EXCEPT !.pc = "vy", !.vert.dz = JitterOffset(d.ret, d.vert.inf)]]

\* the variant makes no y draw for a vertex of the tip row
DisplaceYSkipping(r) ==
  /\ UNCHANGED <<now, rngVars, callVars>>
  /\ run[r].pc = "vy"
  /\ \E d \in {IF run[r].vert.inf = 0 THEN run[r] ELSE Draw(run[r])} :
         run' = [run EXCEPT ![r] =
           [d EXCEPT !.pc = IF d.v + 1 < d.nVerts THEN "vx" ELSE "place",
                     !.vert.dy = d.ret, !.v = d.v + 1]]

DisplaceY(r) ==
  /\ UNCHANGED <<now, rngVars, callVars>>
  /\ run[r].pc = "vy"
  /\ \E d \in {Draw(run[r])} :
         run' = [run EXCEPT ![r] =
           [d EXCEPT !.pc = IF d.v + 1 < d.nVerts THEN "vx" ELSE "place",
                     !.vert.dy = d.ret, !.v = d.v + 1]]

\* app.js 204-213: normals, material, mesh, radial placement
Place(r) ==
  /\ UNCHANGED <<now, rngVars, callVars>>
  /\ run[r].pc = "place"
  /\ \E d \in {Draw(run[r])} :
       LET ring == Rings[d.ri]
       IN  run' = [run EXCEPT ![r] =
           [d EXCEPT !.pc = "rotY",
                     !.inst.mat = Material(Norm(d.inst.h, ring.minH, ring.maxH)),
                     !.inst.r = rng(ring.ringR - 350, ring.ringR + 350, d.seed)]]

\* rotation.y = rng(0, 2*pi): kept as the fraction of a turn
RotY(r) ==
  /\ UNCHANGED <<now, rngVars, callVars>>
  /\ run[r].pc = "rotY"
  /\ \E d \in {Draw(run[r])} :
         run' = [run EXCEPT ![r] = [d EXCEPT !.pc = "rotZ", !.inst.rotY = d.ret]]

RotZ(r) ==
  /\ UNCHANGED <<now, rngVars, callVars>>
  /\ run[r].pc = "rotZ"
  /\ \E d \in {Draw(run[r])} :
         run' = [run EXCEPT ![r] =
           [d EXCEPT !.pc = "rotX", !.inst.rotZ = rng(-200, 200, d.seed)]]

\* rotation.x, then iceMountainsGroup.add(mesh) and the loop increments
RotX(r) ==
  /\ UNCHANGED <<now, rngVars, callVars>>
  /\ run[r].pc = "rotX"
  /\ \E d \in {Draw(run[r])} :
       LET done    == [d.inst EXCEPT !.rotX = rng(-70, 70, d.seed)]
           lastOfRing == d.i + 1 >= Rings[d.ri].count
           nextRi  == IF lastOfRing THEN d.ri + 1 ELSE d.ri
       IN  run' = [run EXCEPT ![r] =
           [d EXCEPT !.pc = IF nextRi > NumRings THEN "done" ELSE "angle",
                     !.inst = done, !.last = done, !.meshes = @ + 1,
                     !.ri = nextRi,
                     !.i = IF lastOfRing THEN 0 ELSE d.i + 1]]

BuildStep(r) ==
  \/ Start(r)
  \/ DrawAngle(r)
  \/ DrawHeight(r)
  \/ DrawBase(r)
  \/ DrawSegs(r)
  \/ DisplaceX(r)
  \/ DisplaceZ(r)
  \/ DisplaceY(r)
  \/ Place(r)
  \/ RotY(r)
  \/ RotZ(r)
  \/ RotX(r)

\* one page load: the whole construction, every ring and instance
BuildNext == BuildStep(1)

SpecBuild == BuildInit /\ [][BuildNext]_vars

\* the generator alone, from any of the sampled states
RngStart == RngInit /\ BuildIdle /\ CallIdle

SpecRng == RngStart /\ [][RngNext]_vars

(***************************************************************************)
(* Two independent page loads.  Each evaluates the script on its own, at   *)
(* its own time; the wall clock advances between and during them.  Each    *)
(* run is followed for its first MaxRunDraws draws.                        *)
(***************************************************************************)
MaxRunDraws == 100

MaxClock == 1

Tick ==
  /\ now < MaxClock
  /\ now' = now + 1
  /\ UNCHANGED <<run, rngVars, callVars>>

TwoRunsNext ==
  \/ \E r \in RunIds : run[r].draws < MaxRunDraws /\ BuildStep(r)
  \/ Tick

SpecTwoRuns == BuildInit /\ [][TwoRunsNext]_vars

(***************************************************************************)
(* Projection helpers (app.js 2554-2567; uvToLatLon also at 386-394).      *)
(*                                                                         *)
(* Units.  Angles that act as lengths (colatitude c, x, y) and latitudes   *)
(* are counted in 1/AngleUnit of a degree; longitudes in millionths of a   *)
(* degree; u and v in 1/UVDen, so that 0.5 is Half.  Math.sin and Math.cos *)
(* are exact on the longitudes of LonTable, whose sines and cosines are    *)
(* the rationals s/TrigDen and c/TrigDen.  In these units the scale        *)
(* sc = 1/(pi*0.505) is ScNum/ScDen UV units per angle unit.               *)
(***************************************************************************)
TrigDen == 65

AngleUnit == 4 * TrigDen

\* 0.505 * 180 degrees in angle units: u - 0.5 = 0.5 at this colatitude
ScDen == (505 * 180 * AngleUnit) \div 1000

UVDen == 2 * ScDen

ScNum == UVDen

Half == UVDen \div 2

LonTable ==
  { [deg |-> -165749967, s |-> -16, c |-> -63],
    [deg |-> -157380135, s |-> -25, c |-> -60],
    [deg |-> -149489763, s |-> -33, c |-> -56],
    [deg |-> -143130102, s |-> -39, c |-> -52],
    [deg |-> -126869898, s |-> -52, c |-> -39],
    [deg |-> -120510237, s |-> -56, c |-> -33],
    [deg |-> -112619865, s |-> -60, c |-> -25],
    [deg |-> -104250033, s |-> -63, c |-> -16],
    [deg |-> -90000000, s |-> -65, c |-> 0],
    [deg |-> -75749967, s |-> -63, c |-> 16],
    [deg |-> -67380135, s |-> -60, c |-> 25],
    [deg |-> -59489763, s |-> -56, c |-> 33],
    [deg |-> -53130102, s |-> -52, c |-> 39],
    [deg |-> -36869898, s |-> -39, c |-> 52],
    [deg |-> -30510237, s |-> -33, c |-> 56],
    [deg |-> -22619865, s |-> -25, c |-> 60],
    [deg |-> -14250033, s |-> -16, c |-> 63],
    [deg |-> 0, s |-> 0, c |-> 65],
    [deg |-> 14250033, s |-> 16, c |-> 63],
    [deg |-> 22619865, s |-> 25, c |-> 60],
    [deg |-> 30510237, s |-> 33, c |-> 56],
    [deg |-> 36869898, s |-> 39, c |-> 52],
    [deg |-> 53130102, s |-> 52, c |-> 39],
    [deg |-> 59489763, s |-> 56, c |-> 33],
    [deg |-> 67380135, s |-> 60, c |-> 25],
    [deg |-> 75749967, s |-> 63, c |-> 16],
    [deg |-> 90000000, s |-> 65, c |-> 0],
    [deg |-> 104250033, s |-> 63, c |-> -16],
    [deg |-> 112619865, s |-> 60, c |-> -25],
    [deg |-> 120510237, s |-> 56, c |-> -33],
    [deg |-> 126869898, s |-> 52, c |-> -39],
    [deg |-> 143130102, s |-> 39, c |-> -52],
    [deg |-> 149489763, s |-> 33, c |-> -56],
    [deg |-> 157380135, s |-> 25, c |-> -60],
    [deg |-> 165749967, s |-> 16, c |-> -63],
    [deg |-> 180000000, s |-> 0, c |-> -65] }

Lons == {e.deg : e \in LonTable}

TrigOf(lon) == CHOOSE e \in LonTable : e.deg = lon

\* Math.sqrt, rounded down to a whole angle unit
\* the greatest common divisor of two naturals, not both 0
RECURSIVE Gcd(_, _)
Gcd(a, b) == IF b = 0 THEN a ELSE Gcd(b, a % b)

RECURSIVE IsqrtBetween(_, _, _)
IsqrtBetween(n, lo, hi) ==
  IF lo >= hi THEN lo
  ELSE LET mid == (lo + hi + 1) \div 2
       IN  IF mid * mid <= n THEN IsqrtBetween(n, mid, hi)
                             ELSE IsqrtBetween(n, lo, mid - 1)

Isqrt(n) == IsqrtBetween(n, 0, 46340)

\* the table angle a is at or before the direction (x, y), both in [0, 180]
\* or both in (-180, 0]
AtOrBefore(e, y, x) ==
  LET cross == e.c * y - e.s * x
      dot   == e.c * x + e.s * y
  IN  cross > 0 \/ (cross = 0 /\ (dot > 0 \/ e.deg = 0))

AtOrAfter(e, y, x) ==
  LET cross == e.c * y - e.s * x
      dot   == e.c * x + e.s * y
  IN  cross < 0 \/ (cross = 0 /\ (dot > 0 \/ e.deg = 0))

\* Math.atan2(y, x) in millionths of a degree, in (-180, 180]: exact for the
\* directions of LonTable, otherwise rounded toward 0 to the table
Atan2(y, x) ==
  IF y >= 0
  THEN LET S == {e.deg : e \in {t \in LonTable : t.deg >= 0 /\ AtOrBefore(t, y, x)}}
       IN  CHOOSE a \in S : \A b \in S : b <= a
  ELSE LET S == {e.deg : e \in {t \in LonTable : t.deg <= 0 /\ AtOrAfter(t, y, x)}}
       IN  CHOOSE a \in S : \A b \in S : b >= a

\* x * sc and x / sc
TimesSc(x) == (x * ScNum) \div ScDen

OverSc(x) == (x * ScDen) \div ScNum

\* app.js 2554-2559: the north pole maps to (0.5, 0.5)
latLonToUVSwapped(lat, lon) ==
  LET c == 90 * AngleUnit - lat
  IN  << TimesSc((c * TrigOf(lon).c) \div TrigDen) + Half,
         TimesSc((-c * TrigOf(lon).s) \div TrigDen) + Half >>

latLonToUV(lat, lon) ==
  LET c == 90 * AngleUnit - lat
  IN  << TimesSc((c * TrigOf(lon).s) \div TrigDen) + Half,
         TimesSc((-c * TrigOf(lon).c) \div TrigDen) + Half >>

\* app.js 2560-2567 (386-394): the variants take atan2(x, y), and drop the
\* pole branch (Math.atan2(0, -0) is pi)
uvToLatLonNoNegate(u, v) ==
  LET x == OverSc(u - Half)
      y == OverSc(v - Half)
      c == Isqrt(x * x + y * y)
  IN  IF c = 0 THEN <<90 * AngleUnit, 0>>
      ELSE <<90 * AngleUnit - c, Atan2(x, y)>>

uvToLatLonNoPole(u, v) ==
  LET x == OverSc(u - Half)
      y == OverSc(v - Half)
      c == Isqrt(x * x + y * y)
  IN  <<90 * AngleUnit - c, IF x = 0 /\ y = 0 THEN 180000000 ELSE Atan2(x, -y)>>

\* the variant reports the longitude as a bearing in [0, 360)
uvToLatLonBearing(u, v) ==
  LET x == OverSc(u - Half)
      y == OverSc(v - Half)
      c == Isqrt(x * x + y * y)
      a == Atan2(x, -y)
  IN  IF c = 0 THEN <<90 * AngleUnit, 0>>
      ELSE <<90 * AngleUnit - c, IF a < 0 THEN a + 360000000 ELSE a>>

\* the variant maps the rim of the disc to the south pole
uvToLatLonWholeGlobe(u, v) ==
  LET x == OverSc(u - Half)
      y == OverSc(v - Half)
      c == Isqrt(x * x + y * y)
  IN  IF c = 0 THEN <<90 * AngleUnit, 0>>
      ELSE <<90 * AngleUnit - 4 * c, Atan2(x, -y)>>

uvToLatLon(u, v) ==
  LET x == OverSc(u - Half)
      y == OverSc(v - Half)
      c == Isqrt(x * x + y * y)
  IN  IF c = 0 THEN <<90 * AngleUnit, 0>>
      ELSE <<90 * AngleUnit - c, Atan2(x, -y)>>

(***************************************************************************)
(* The underside fade (app.js 283-285, 306, 1955):                         *)
(* fade = Math.pow(1.0 - Math.min(r, 1.0), p), with r in 1/FadeGrid and    *)
(* the result rounded down to 1/FadeScale.  Math.pow of a negative base    *)
(* and a fractional exponent is NaN.                                       *)
(***************************************************************************)
FadeGrid == 8

FadeScale == 10

\* r ranges over 0 .. 1 + FadeBeyond/FadeGrid
FadeBeyond == 3

\* the exponents 0.4 (app.js 284), 0.5 (306) and 0.35 (1955) as p/q
FadeExponents == {<<2, 5>>, <<1, 2>>, <<7, 20>>}

\* (x/n)^(p/q) in 1/FadeScale, rounded down
PowFixed(x, n, p, q) ==
  IF x < 0 THEN NaN
  ELSE LET g     == Gcd(x, n)
           scale == BigPow(ToBig(n \div g), p)
           rhs   == BigMul(BigPow(ToBig(x \div g), p), BigPow(ToBig(FadeScale), q))
           Fits(y) == BigLeq(BigMul(BigPow(ToBig(y), q), scale), rhs)
           top == IF x > n THEN 2 * FadeScale ELSE FadeScale
       IN  CHOOSE y \in 0..top :
             Fits(y) /\ (y < top => ~Fits(y + 1))

fadeNoClamp(r, p, q) == PowFixed(FadeGrid - r, FadeGrid, p, q)

fade(r, p, q) == PowFixed(FadeGrid - MinOf(r, FadeGrid), FadeGrid, p, q)

FadeInputs == 0..(FadeGrid + FadeBeyond)

FadeTable == [e \in FadeExponents |-> [r \in FadeInputs |-> fade(r, e[1], e[2])]]

(***************************************************************************)
(* The helpers called on their own, one call (or a call and its inverse,   *)
(* or two fades) per behaviour.                                            *)
(***************************************************************************)
\* normalized heights k/NormGrid
NormGrid == 100

\* whole degrees of latitude, from 80 S to the pole
Lats == {d * AngleUnit : d \in -80..90}

\* pick coordinates: the unit square in steps of 1/(2*PickGrid)
PickGrid == 4

PickCoord(j) == Half + 2 * ((j * (Half \div 2)) \div PickGrid)

Picks == {PickCoord(j) : j \in -PickGrid..PickGrid}

Classify ==
  /\ UNCHANGED <<rngVars, buildVars, pass, ui, domVars>>
  /\ call.fn = "none"
  /\ \E k \in 0..NormGrid :
       call' = [fn |-> "material", n |-> k,
                mat |-> Material([num |-> ToBig(k), den |-> ToBig(NormGrid)])]

Fade ==
  /\ UNCHANGED <<rngVars, buildVars, pass, ui, domVars>>
  /\ call.fn \in {"none", "fade"}
  /\ \E e \in FadeExponents, k \in FadeInputs :
       /\ call.fn = "fade" => call.e = e
       /\ call' = [fn |-> "fade", e |-> e, r |-> k, res |-> FadeTable[e][k],
                   r0   |-> IF call.fn = "fade" THEN call.r ELSE k,
                   res0 |-> IF call.fn = "fade" THEN call.res ELSE FadeTable[e][k]]

Project ==
  /\ UNCHANGED <<rngVars, buildVars, pass, ui, domVars>>
  /\ call.fn = "none"
  /\ \E lat \in Lats, lon \in Lons :
       call' = [fn |-> "latLonToUV", lat |-> lat, lon |-> lon,
                uv |-> latLonToUV(lat, lon)]

\* the inverse applied to the result of the forward projection
Unproject ==
  /\ UNCHANGED <<rngVars, buildVars, pass, ui, domVars>>
  /\ call.fn = "latLonToUV"
  /\ call' = [fn |-> "roundTrip", lat |-> call.lat, lon |-> call.lon,
              uv |-> call.uv, ll |-> uvToLatLon(call.uv[1], call.uv[2])]

\* the inverse applied to a pick on the disc top (app.js 487)
Pick ==
  /\ UNCHANGED <<rngVars, buildVars, pass, ui, domVars>>
  /\ call.fn = "none"
  /\ \E u \in Picks, v \in Picks :
       call' = [fn |-> "uvToLatLon", u |-> u, v |-> v, ll |-> uvToLatLon(u, v)]

CallsNext == Classify \/ Fade \/ Project \/ Unproject \/ Pick

CallsInit == CallIdle /\ RngIdle /\ BuildIdle

SpecCalls == CallsInit /\ [][CallsNext]_vars

(***************************************************************************)
(* Displacement passes over a base shape: a geometry is created, a loop    *)
(* visits pos[0 .. pos.count-1] and rewrites coordinates, and the mesh is  *)
(* added to the scene.  Lengths of the underside caps are in 1/LenUnit of  *)
(* a world unit, so that a cap radius times a table cosine is an integer.  *)
(* Rim vertices lie on directions of RimDirs (cosine, sine over TrigDen)   *)
(* instead of the equal divisions of the circle.                           *)
(***************************************************************************)
LenUnit == 1300

\* DISC_RADIUS = 10 (app.js 22), DISC_R = 10 (796, 1496)
DISC_RADIUS == 10 * LenUnit

AllDirs ==
  << [c |-> 65, s |-> 0], [c |-> 39, s |-> 52], [c |-> 0, s |-> 65],
     [c |-> -52, s |-> 39], [c |-> -65, s |-> 0], [c |-> -39, s |-> -52],
     [c |-> 0, s |-> -65], [c |-> 52, s |-> -39] >>

\* number of rim vertices of a modelled circle
RimVerts == 4

RimDirs == SubSeq(AllDirs, 1, MinOf(RimVerts, Len(AllDirs)))

\* THREE.CircleGeometry(radius, segments): the centre, then the rim, all in
\* the XY plane: (radius cos t, radius sin t, 0)
CircleGeometry(radius) ==
  << [x |-> 0, y |-> 0, z |-> 0, nan |-> FALSE] >> \o
  [k \in 1..Len(RimDirs) |->
     [x |-> (radius * RimDirs[k].c) \div TrigDen,
      y |-> (radius * RimDirs[k].s) \div TrigDen,
      z |-> 0, nan |-> FALSE]]

\* the cap layers of the three drafts: the radius of the geometry, the
\* divisor of the radius ratio, the fade exponent; makeLayer(radius, ...)
\* is called at 1962-1963 and takes any radius
\* offset is the constant added to the written y (none, - 0.3, - 0.5,
\* yOffset), in hundredths
CapLayers ==
  { [fn |-> "buildBedrock.primary", radius |-> (99 * DISC_RADIUS) \div 100,
     divisor |-> DISC_RADIUS, exp |-> <<2, 5>>, offset |-> 0],
    [fn |-> "buildBedrock.crevice", radius |-> (78 * DISC_RADIUS) \div 100,
     divisor |-> (78 * DISC_RADIUS) \div 100, exp |-> <<1, 2>>, offset |-> -30],
    [fn |-> "bedrock.primary", radius |-> (995 * DISC_RADIUS) \div 1000,
     divisor |-> DISC_RADIUS, exp |-> <<7, 20>>, offset |-> 0],
    [fn |-> "bedrock.crevice", radius |-> (80 * DISC_RADIUS) \div 100,
     divisor |-> (80 * DISC_RADIUS) \div 100, exp |-> <<1, 2>>, offset |-> -50] }
  \cup
  { [fn |-> "makeLayer", radius |-> l[1], divisor |-> l[1], exp |-> <<7, 20>>,
     offset |-> l[2]] :
      l \in { <<(995 * DISC_RADIUS) \div 1000, -14>>,
              <<(78 * DISC_RADIUS) \div 100, -44>>,
              <<0, -14>>, <<-((78 * DISC_RADIUS) \div 100), -44>> } }

\* the variant leaves out Math.max(0, ...): the sum may be negative
HangsUnclamped == {-3, 0, 3}

\* hang = Math.max(0, d + 0.6) * 3.0 for a sum d of sines: some value >= 0
Hangs == {0, 3}

\* fade = Math.pow(1.0 - Math.min(r, 1.0), p) for r = dist / divisor;
\* 0/0 is NaN, and a negative divisor makes r <= 0
CapFade(dist, divisor, exp) ==
  IF divisor = 0 THEN NaN
  ELSE IF divisor < 0 THEN PowFixed(dist - divisor, -divisor, exp[1], exp[2])
  ELSE PowFixed(divisor - MinOf(dist, divisor), divisor, exp[1], exp[2])

\* pos.setY(i, y): one coordinate of one vertex is rewritten
SetYDropping(pos, i, y, nan) ==
  [k \in 1..(Len(pos) - 1) |-> IF k < i THEN pos[k] ELSE pos[k + 1]]

SetY(pos, i, y, nan) == [pos EXCEPT ![i].y = y, ![i].nan = @ \/ nan]

\* a pass at its start: the geometry just created, no vertex visited
NewPass(shape, fn, geo) ==
  [shape |-> shape, fn |-> fn, pos |-> geo, count0 |-> Len(geo), i |-> 1,
   visits |-> [k \in 1..Len(geo) |-> 0], fades |-> [k \in 1..Len(geo) |-> NaN],
   added |-> FALSE, error |-> FALSE]

\* var geo = new THREE.CircleGeometry(...); var pos = geo.attributes.position
NewCap ==
  /\ UNCHANGED <<rngVars, buildVars, call, ui, domVars>>
  /\ pass.shape = "none"
  /\ \E layer \in CapLayers :
       pass' = [radius |-> layer.radius, divisor |-> layer.divisor,
                exp |-> layer.exp, offset |-> layer.offset,
                hangs |-> [k \in 1..(1 + Len(RimDirs)) |-> 0]] @@
               NewPass("cap", layer.fn, CircleGeometry(layer.radius))

\* one iteration of the loop: r, d, hang, fade,
\* pos.setY(i, -hang * fade + offset), y in 1/(100 * FadeScale) of a world
\* unit
CapVertex ==
  /\ UNCHANGED <<rngVars, buildVars, call, ui, domVars>>
  /\ pass.shape = "cap"
  /\ pass.i <= Len(pass.pos)
  /\ \E hang \in Hangs :
       LET v    == pass.pos[pass.i]
           dist == Isqrt(v.x * v.x + v.z * v.z)
           f    == CapFade(dist, pass.divisor, pass.exp)
       IN  pass' = [pass EXCEPT
                      !.pos = SetY(pass.pos, pass.i,
                                   IF f = NaN THEN 0
                                   ELSE -(hang * f * 100) + pass.offset * FadeScale,
                                   f = NaN),
                      !.visits[pass.i] = @ + 1,
                      !.fades[pass.i] = f,
                      !.hangs[pass.i] = hang,
                      !.i = @ + 1]

\* geo.computeVertexNormals(); new THREE.Mesh(geo, mat); scene.add(mesh)
CapAdd ==
  /\ UNCHANGED <<rngVars, buildVars, call, ui, domVars>>
  /\ pass.shape = "cap"
  /\ pass.i > Len(pass.pos)
  /\ ~pass.added
  /\ pass' = [pass EXCEPT !.added = TRUE]

\* ring rows handed to the ornament loop (app.js 179-183 has three valid
\* ones), with the height and base radius drawn for one instance, in
\* thousandths: a valid row, a row whose heights coincide, a row of zero
\* height, a row of negative base radius
ConeParams ==
  { [minH |-> 1400, maxH |-> 3800, h |-> 2000, base |-> 390],
    [minH |-> 1000, maxH |-> 1000, h |-> 1000, base |-> 390],
    [minH |-> 0,    maxH |-> 0,    h |-> 0,    base |-> 390],
    [minH |-> 1400, maxH |-> 3800, h |-> 2000, base |-> -390] }

\* polygon order of the modelled cone
ConeSegs == 3

Dir(k) == AllDirs[((k - 1) % Len(AllDirs)) + 1]

\* THREE.ConeGeometry(base, h, segs): the tip row, the base row, then the
\* centres and the rim of the bottom cap
ConeGeometry(base, h, segs) ==
  [k \in 1..(4 * segs + 3) |->
     LET onAxis == k <= segs + 1 \/ (k > 2 * segs + 2 /\ k <= 3 * segs + 2)
     IN  [x |-> IF onAxis THEN 0 ELSE (base * Dir(k).s) \div TrigDen,
          y |-> ConeY(k - 1, segs, h),
          z |-> IF onAxis THEN 0 ELSE (base * Dir(k).c) \div TrigDen,
          nan |-> FALSE]]

\* a draw, as one of 0, 1/2, 1; one value stands for the draws of a pass
\* (the exact draws are those of the construction above)
HalfDraws == {0, 1, 2}

NewCone ==
  /\ UNCHANGED <<rngVars, buildVars, call, ui, domVars>>
  /\ pass.shape = "none"
  /\ \E prm \in ConeParams, jit \in HalfDraws :
       pass' = [prm |-> prm, jit |-> jit, mat |-> "none"] @@
               NewPass("cone", "buildIceMountains",
                       ConeGeometry(prm.base, prm.h, ConeSegs))

\* app.js 197-203: vy, inf, setX, setZ, setY
ConeVertex ==
  /\ UNCHANGED <<rngVars, buildVars, call, ui, domVars>>
  /\ pass.shape = "cone"
  /\ pass.i <= Len(pass.pos)
  /\ LET v   == pass.pos[pass.i]
         h   == pass.prm.h
         inf == InfOf(v.y, h)
         off == (4 * pass.prm.base * (pass.jit - 1)) \div 10
         moved == [pass.pos EXCEPT
                     ![pass.i].x = IF inf = NaN THEN 0 ELSE @ + off * inf,
                     ![pass.i].z = IF inf = NaN THEN 0 ELSE @ + off * inf]
     IN  pass' = [pass EXCEPT
                    !.pos = SetY(moved, pass.i,
                                 v.y + (5 * h * (pass.jit - 1)) \div 100, inf = NaN),
                    !.visits[pass.i] = @ + 1,
                    !.fades[pass.i] = inf,
                    !.i = @ + 1]

\* app.js 204-217: normals, norm, mat, mesh, placement, group.add(mesh);
\* norm is 0/0 = NaN when the heights coincide, and NaN > t is false
ConeAdd ==
  /\ UNCHANGED <<rngVars, buildVars, call, ui, domVars>>
  /\ pass.shape = "cone"
  /\ pass.i > Len(pass.pos)
  /\ ~pass.added
  /\ LET prm == pass.prm
     IN  pass' = [pass EXCEPT
           !.added = TRUE,
           !.mat = IF prm.maxH = prm.minH THEN "shadow"
                   ELSE Material([num |-> ToBig(prm.h - prm.minH),
                                  den |-> ToBig(prm.maxH - prm.minH)])]

\* rows of the modelled wall (SEGS_H + 1 in the code)
WallRows == 2

\* DISC_R + 0.06 and WALL_H
WallRadius == DISC_RADIUS + (6 * LenUnit) \div 100

\* THREE.CylinderGeometry(R, R, WALL_H, SEGS_C, SEGS_H, true): rows of rim
\* vertices (R sin t, y, R cos t), no caps
CylinderGeometry(radius) ==
  [k \in 1..(WallRows * Len(RimDirs)) |->
     LET d == RimDirs[((k - 1) % Len(RimDirs)) + 1]
     IN  [x |-> (radius * d.s) \div TrigDen,
          y |-> ((k - 1) \div Len(RimDirs)) * LenUnit,
          z |-> (radius * d.c) \div TrigDen,
          nan |-> FALSE]]

\* the sine amplitudes of strata and bulge (app.js 1764-1771) add up to
\* 0.055 + 0.025 + 0.012 + 0.14 + 0.07 + 0.035 = 0.337
WallAmplitude == (337 * LenUnit) \div 1000

\* strata + bulge, and the vertical ripple: sums of sines, at the two ends
\* of their range
WallOffsets == {-WallAmplitude, WallAmplitude}

NewWall ==
  /\ UNCHANGED <<rngVars, buildVars, call, ui, domVars>>
  /\ pass.shape = "none"
  /\ pass' = NewPass("wall", "buildIceWall", CylinderGeometry(WallRadius))

\* the variant leaves the original radius out of the new one
WallVertexNoRad ==
  /\ UNCHANGED <<rngVars, buildVars, call, ui, domVars>>
  /\ pass.shape = "wall"
  /\ pass.i <= Len(pass.pos)
  /\ \E w \in WallOffsets :
       LET v      == pass.pos[pass.i]
           rad    == Isqrt(v.x * v.x + v.z * v.z)
           newRad == w
           moved  == [pass.pos EXCEPT
                        ![pass.i].x = (v.x * newRad) \div rad,
                        ![pass.i].z = (v.z * newRad) \div rad]
       IN  pass' = [pass EXCEPT
                      !.pos = SetY(moved, pass.i, v.y + w \div 2, FALSE),
                      !.visits[pass.i] = @ + 1,
                      !.i = @ + 1]

\* app.js 1757-1779: th, rad, newRad, setX, setZ, setY
WallVertex ==
  /\ UNCHANGED <<rngVars, buildVars, call, ui, domVars>>
  /\ pass.shape = "wall"
  /\ pass.i <= Len(pass.pos)
  /\ \E w \in WallOffsets :
       LET v      == pass.pos[pass.i]
           rad    == Isqrt(v.x * v.x + v.z * v.z)
           newRad == rad + w
           moved  == [pass.pos EXCEPT
                        ![pass.i].x = (v.x * newRad) \div rad,
                        ![pass.i].z = (v.z * newRad) \div rad]
       IN  pass' = [pass EXCEPT
                      !.pos = SetY(moved, pass.i, v.y + w \div 2, FALSE),
                      !.visits[pass.i] = @ + 1,
                      !.i = @ + 1]

\* geo.computeVertexNormals(); the mesh is added to iceGroup
WallAdd ==
  /\ UNCHANGED <<rngVars, buildVars, call, ui, domVars>>
  /\ pass.shape = "wall"
  /\ pass.i > Len(pass.pos)
  /\ ~pass.added
  /\ pass' = [pass EXCEPT !.added = TRUE]

ShapesNext ==
  \/ NewCap \/ CapVertex \/ CapAdd
  \/ NewCone \/ ConeVertex \/ ConeAdd
  \/ NewWall \/ WallVertex \/ WallAdd

SpecShapes == BuildInit /\ [][ShapesNext]_vars

(***************************************************************************)
(* The page after the script has been evaluated (app.js 36-49, 317-776):   *)
(* the state object, the switches of the scene, the texture, the loader    *)
(* and its timers.  Distances are in tenths of a world unit, camPhi in     *)
(* thousandths of a radian;                                                *)
(* camTheta is its initial value or some other one.  The markup is not     *)
(* part of the source: each switch is taken to start in the position that  *)
(* matches the state object.                                               *)
(***************************************************************************)
\* user events are followed up to this many
MaxEvents == 2

\* camPhi in thousandths of a radian: Math.PI / 3 (app.js 40, 554), and the
\* limits 0.12 and Math.PI * 0.49 of app.js 434 and 468
PhiStart == 1047

PhiMin == 120

PhiMax == 1539

\* camDist in tenths: 22 at first, kept in 11..80
DistMin == 110

DistMax == 800

UiStart ==
  [phase |-> "loaded", n |-> 0,
   camDist |-> 220, camTheta |-> "initial", camPhi |-> PhiStart,
   target |-> 0, nightMode |-> FALSE, waterfallOn |-> TRUE,
   streetMode |-> FALSE, dragging |-> FALSE, pinchDist |-> 0,
   hintShown |-> FALSE,
   waterfallVisible |-> TRUE, iceVisible |-> TRUE, hasTex |-> 0, nightAmt |-> 0,
   switches |-> [toggleNight |-> FALSE, toggleWaterfall |-> TRUE,
                 toggleIce |-> TRUE, toggleSatellite |-> TRUE],
   key |-> FALSE, tex |-> "none", loads |-> 0, pending |-> {},
   nav |-> "navDisc", overlayHidden |-> TRUE, streetCoords |-> <<>>,
   hintHidden |-> FALSE,
   loader |-> "shown", status |-> "first",
   tick |-> FALSE, timers |-> {}, anim |-> 0, caught |-> FALSE]

\* app.js 681-690: the toast is markup, shown and hidden by its own timers
showIceToast(u) == u

\* app.js 398-420: the camera, the altitude and scale of the HUD and the
\* toast are written from the state; nothing of the state is written
updateCamera(u) ==
  IF u.camPhi > (41 * 3142) \div 100 /\ u.camDist < 130 THEN showIceToast(u) ELSE u

\* app.js 348-381
drawPlaceholderDisc(u) == [u EXCEPT !.tex = "placeholder", !.hasTex = 1]

\* app.js 322-329
applyTexture(u) == [u EXCEPT !.tex = "loaded", !.hasTex = 1]

\* app.js 331-339: without a key the placeholder, else loader.load(url, ...)
loadDiscTexture(u) ==
  IF ~u.key THEN drawPlaceholderDisc(u)
  ELSE [u EXCEPT !.loads = @ + 1, !.pending = @ \cup {"world"}]

\* app.js 341-346
loadZoomedTexture(u) ==
  IF ~u.key THEN u
  ELSE [u EXCEPT !.loads = @ + 1, !.pending = @ \cup {"zoomed"}]

\* the call of init() that may throw, if any
InitThrows == {"none", "updateCamera", "drawPlaceholderDisc", "loadDiscTexture"}

\* the three calls of the try block, up to the one that throws
TrySetup(u, threw) ==
  LET u1 == IF threw = "updateCamera" THEN u ELSE updateCamera(u)
      u2 == IF threw \in {"updateCamera", "drawPlaceholderDisc"}
            THEN u1 ELSE drawPlaceholderDisc(u1)
  IN  IF threw # "none" THEN u2 ELSE loadDiscTexture(u2)

\* init without the try/catch: an exception leaves init before the timers
\* are set
initUnguarded ==
  /\ UNCHANGED <<rngVars, buildVars, call, pass, domVars>>
  /\ run[1].pc = "done"
  /\ ui.phase = "unloaded"
  /\ \E key \in BOOLEAN, threw \in InitThrows :
       LET u == TrySetup([UiStart EXCEPT !.key = key], threw)
       IN  ui' = IF threw # "none" THEN u
                 ELSE [u EXCEPT !.tick = TRUE, !.timers = {"dismiss"}]

\* app.js 742-776, called at 778 when the script has built the scene
init ==
  /\ UNCHANGED <<rngVars, buildVars, call, pass, domVars>>
  /\ run[1].pc = "done"
  /\ ui.phase = "unloaded"
  /\ \E key \in BOOLEAN, threw \in InitThrows :
       LET u == TrySetup([UiStart EXCEPT !.key = key], threw)
       IN  ui' = [u EXCEPT !.caught = threw # "none",
                           !.tick = TRUE, !.timers = {"dismiss"}]

\* the interval of app.js 756-761: the bar grows and the status shows the
\* next of LOADER_MSGS
LoaderTick ==
  /\ UNCHANGED <<rngVars, buildVars, call, pass, domVars>>
  /\ ui.phase = "loaded"
  /\ ui.tick
  /\ ui' = [ui EXCEPT !.status = "next"]

\* app.js 698-702, 709-720: one frame of the render loop
Frame(u) ==
  [u EXCEPT !.nightAmt = IF u.nightMode THEN MinOf(@ + 1, 2) ELSE MaxOf(@ - 1, 0),
            !.camTheta = IF ~u.dragging /\ ~u.streetMode THEN "moved" ELSE @]

\* the timeout of app.js 764-773: the interval is cleared, "Ready.", the
\* fade-out is scheduled and animate() is called
Dismiss ==
  /\ UNCHANGED <<rngVars, buildVars, call, pass, domVars>>
  /\ ui.phase = "loaded"
  /\ "dismiss" \in ui.timers
  /\ ui' = [Frame(ui) EXCEPT !.tick = FALSE, !.status = "ready",
                             !.timers = (@ \ {"dismiss"}) \cup {"out"},
                             !.anim = @ + 1]

\* app.js 768-771
LoaderOut ==
  /\ UNCHANGED <<rngVars, buildVars, call, pass, domVars>>
  /\ ui.phase = "loaded"
  /\ "out" \in ui.timers
  /\ ui' = [ui EXCEPT !.loader = "out", !.timers = (@ \ {"out"}) \cup {"hide"}]

LoaderHide ==
  /\ UNCHANGED <<rngVars, buildVars, call, pass, domVars>>
  /\ ui.phase = "loaded"
  /\ "hide" \in ui.timers
  /\ ui' = [ui EXCEPT !.loader = "hidden", !.timers = @ \ {"hide"}]

\* requestAnimationFrame(animate): the following frames
AnimateFrame ==
  /\ UNCHANGED <<rngVars, buildVars, call, pass, domVars>>
  /\ ui.phase = "loaded"
  /\ ui.anim > 0
  /\ ui' = Frame(ui)

\* a texture request ends: applyTexture, or the error callback
LoadEnds ==
  /\ UNCHANGED <<rngVars, buildVars, call, pass, domVars>>
  /\ ui.phase = "loaded"
  /\ \E kind \in ui.pending, ok \in BOOLEAN :
       LET u == [ui EXCEPT !.pending = @ \ {kind}]
       IN  ui' = IF ok THEN applyTexture(u)
                 ELSE IF kind = "world" THEN drawPlaceholderDisc(u) ELSE u

\* a handler has run: one more user event
Event(u) == [u EXCEPT !.n = @ + 1]

\* a user event can be delivered
Idle == ui.phase = "loaded" /\ ui.n < MaxEvents

\* Math.max(11, Math.min(80, d)), in tenths
ClampDist(d) == MaxOf(DistMin, MinOf(DistMax, d))

\* app.js 425-429
MouseDown ==
  /\ UNCHANGED <<rngVars, buildVars, call, pass, domVars>>
  /\ Idle
  /\ ui' = Event([ui EXCEPT !.dragging = TRUE])

MouseUp ==
  /\ UNCHANGED <<rngVars, buildVars, call, pass, domVars>>
  /\ Idle
  /\ ui' = Event([ui EXCEPT !.dragging = FALSE])

\* pixels the pointer has moved down since the last event
DragDeltas == {-400, 400}

\* the drag of app.js 430-437 and 464-468: dx turns, dy * 0.005 tilts
Drag(u, dx, dy) ==
  updateCamera([u EXCEPT !.camTheta = IF dx # 0 THEN "moved" ELSE @,
                         !.camPhi = MaxOf(PhiMin, MinOf(PhiMax, @ + 5 * dy))])

MouseMove ==
  /\ UNCHANGED <<rngVars, buildVars, call, pass, domVars>>
  /\ Idle
  /\ \E dx \in {0, 1}, dy \in DragDeltas :
       ui' = Event(IF ui.dragging THEN Drag(ui, dx, dy) ELSE ui)

\* deltaY of a wheel event
WheelDeltas == {-400, 400}

\* the variant asks for a texture of the new zoom level
WheelReloading ==
  /\ UNCHANGED <<rngVars, buildVars, call, pass, domVars>>
  /\ Idle
  /\ \E deltaY \in WheelDeltas :
       ui' = Event(loadZoomedTexture(updateCamera([ui EXCEPT
                     !.camDist = ClampDist(@ + (3 * deltaY) \div 10)])))

\* app.js 440-444
Wheel ==
  /\ UNCHANGED <<rngVars, buildVars, call, pass, domVars>>
  /\ Idle
  /\ \E deltaY \in WheelDeltas :
       ui' = Event(updateCamera([ui EXCEPT
                     !.camDist = ClampDist(@ + (3 * deltaY) \div 10)]))

\* distances between two fingers, in pixels
PinchDists == {100, 200}

\* app.js 446-456
TouchStart ==
  /\ UNCHANGED <<rngVars, buildVars, call, pass, domVars>>
  /\ Idle
  /\ \E touches \in {1, 2}, dist \in PinchDists :
       ui' = Event(IF touches = 2 THEN [ui EXCEPT !.pinchDist = dist]
                                  ELSE [ui EXCEPT !.dragging = TRUE])

\* app.js 458-472 with two fingers: the pinch zooms
Pinch ==
  /\ UNCHANGED <<rngVars, buildVars, call, pass, domVars>>
  /\ Idle
  /\ \E dist \in PinchDists :
       ui' = Event(
         IF ui.pinchDist # 0
         THEN updateCamera([ui EXCEPT
                !.camDist = ClampDist(@ + (8 * (ui.pinchDist - dist)) \div 10),
                !.pinchDist = dist])
         ELSE ui)

\* app.js 458-472 with one finger: the drag turns and tilts
TouchDrag ==
  /\ UNCHANGED <<rngVars, buildVars, call, pass, domVars>>
  /\ Idle
  /\ \E dy \in DragDeltas :
       ui' = Event(IF ui.dragging THEN Drag(ui, 1, dy) ELSE ui)

\* app.js 473
TouchEnd ==
  /\ UNCHANGED <<rngVars, buildVars, call, pass, domVars>>
  /\ Idle
  /\ ui' = Event([ui EXCEPT !.dragging = FALSE, !.pinchDist = 0])

\* app.js 658-676 (the panorama itself is outside the model)
openStreetView(u, ll) ==
  [u EXCEPT !.streetMode = TRUE, !.overlayHidden = FALSE,
            !.streetCoords = ll, !.nav = "navStreet"]

\* the variant leaves the nav item as it is
closeStreetViewKeepingNav(u) ==
  [u EXCEPT !.streetMode = FALSE, !.overlayHidden = TRUE]

\* app.js 664-668
closeStreetView(u) ==
  [u EXCEPT !.streetMode = FALSE, !.overlayHidden = TRUE, !.nav = "navDisc"]

\* state.targetLat, state.targetLon: 0, 0 at first (app.js 42-43), then
\* the location of a search result
PlaceAt ==
  [p \in 0..2 |-> <<p * 20 * AngleUnit, -(p * 50 * AngleUnit)>>]

\* what the ray of a double click hits on the disc top, if anything
Hits == {<<>>, <<Half, Half>>, <<0, 0>>}

\* the variant opens the street view at the target of the last search
DblClickAtTarget ==
  /\ UNCHANGED <<rngVars, buildVars, call, pass, domVars>>
  /\ Idle
  /\ \E hit \in Hits :
       ui' = Event(
         IF hit = <<>> THEN ui
         ELSE IF uvToLatLon(hit[1], hit[2])[1] < -60 * AngleUnit THEN showIceToast(ui)
         ELSE [openStreetView(ui, PlaceAt[ui.target]) EXCEPT
                 !.hintHidden = TRUE, !.hintShown = TRUE])

\* app.js 477-492
DblClick ==
  /\ UNCHANGED <<rngVars, buildVars, call, pass, domVars>>
  /\ Idle
  /\ \E hit \in Hits :
       ui' = Event(
         IF hit = <<>> THEN ui
         ELSE LET ll == uvToLatLon(hit[1], hit[2])
              IN  IF ll[1] < -60 * AngleUnit THEN showIceToast(ui)
                  ELSE [openStreetView(ui, ll) EXCEPT
                          !.hintHidden = ~ui.hintShown \/ @,
                          !.hintShown = TRUE])

\* the four switches bound at app.js 540-543
ToggleIds == {"toggleNight", "toggleWaterfall", "toggleIce", "toggleSatellite"}

\* the callbacks given to bindToggle
Toggled(u, id, on) ==
  CASE id = "toggleNight"     -> [u EXCEPT !.nightMode = on]
    [] id = "toggleWaterfall" -> [u EXCEPT !.waterfallOn = on, !.waterfallVisible = on]
    [] id = "toggleIce"       -> [u EXCEPT !.iceVisible = on]
    [] id = "toggleSatellite" -> [u EXCEPT !.hasTex = IF on THEN 1 ELSE 0]

\* the variant draws from the generator when the ice is switched
ToggleDrawing ==
  /\ UNCHANGED <<rngVars, now, call, pass, domVars>>
  /\ Idle
  /\ \E id \in ToggleIds :
       LET on == ~ui.switches[id]
       IN  /\ ui' = Event(Toggled([ui EXCEPT !.switches[id] = on], id, on))
           /\ run' = IF id = "toggleIce" THEN [run EXCEPT ![1] = Draw(run[1])]
                                         ELSE run

\* app.js 533-539: the class is flipped and the callback gets its new value
Toggle ==
  /\ UNCHANGED <<rngVars, buildVars, call, pass, domVars>>
  /\ Idle
  /\ \E id \in ToggleIds :
       LET on == ~ui.switches[id]
       IN  ui' = Event(Toggled([ui EXCEPT !.switches[id] = on], id, on))

\* app.js 545-547
ZoomInUnclamped ==
  /\ UNCHANGED <<rngVars, buildVars, call, pass, domVars>>
  /\ Idle
  /\ ui' = Event(updateCamera([ui EXCEPT !.camDist = @ - 25]))

ZoomIn ==
  /\ UNCHANGED <<rngVars, buildVars, call, pass, domVars>>
  /\ Idle
  /\ ui' = Event(updateCamera([ui EXCEPT !.camDist = MaxOf(DistMin, @ - 25)]))

\* app.js 548-550
ZoomOut ==
  /\ UNCHANGED <<rngVars, buildVars, call, pass, domVars>>
  /\ Idle
  /\ ui' = Event(updateCamera([ui EXCEPT !.camDist = MinOf(DistMax, @ + 25)]))

\* app.js 551-557
Reset ==
  /\ UNCHANGED <<rngVars, buildVars, call, pass, domVars>>
  /\ Idle
  /\ ui' = Event(loadDiscTexture(updateCamera(
             [ui EXCEPT !.camDist = 220, !.camTheta = "initial", !.camPhi = PhiStart])))

\* app.js 558-560
Compass ==
  /\ UNCHANGED <<rngVars, buildVars, call, pass, domVars>>
  /\ Idle
  /\ ui' = Event(updateCamera([ui EXCEPT !.camTheta = "initial"]))

\* places of a result list (demoPlaces, or geocoder results)
Places == {1, 2}

\* app.js 626-631
flyTo(u, place) == loadZoomedTexture([u EXCEPT !.target = place])

\* a click on a search result (app.js 610-615)
ResultClick ==
  /\ UNCHANGED <<rngVars, buildVars, call, pass, domVars>>
  /\ Idle
  /\ \E place \in Places : ui' = Event(flyTo(ui, place))

\* navStreet, and navDisc or closeStreet (app.js 526-527, 683)
Nav ==
  /\ UNCHANGED <<rngVars, buildVars, call, pass, domVars>>
  /\ Idle
  /\ \/ ui' = Event(openStreetView(ui, PlaceAt[ui.target]))
     \/ ui' = Event(closeStreetView(ui))

\* handlers that touch only the markup: the panel, the search box, resize
MarkupOnly ==
  /\ UNCHANGED <<rngVars, buildVars, call, pass, domVars>>
  /\ Idle
  /\ \E h \in {"menuBtn", "panelClose", "searchBtn", "resize"} :
       ui' = Event(ui)

PageNext ==
  \/ init \/ LoaderTick \/ Dismiss \/ LoaderOut \/ LoaderHide
  \/ AnimateFrame \/ LoadEnds
  \/ MouseDown \/ MouseUp \/ MouseMove \/ Wheel
  \/ TouchStart \/ Pinch \/ TouchDrag \/ TouchEnd \/ DblClick
  \/ Toggle \/ ZoomIn \/ ZoomOut \/ Reset \/ Compass
  \/ ResultClick \/ Nav \/ MarkupOnly

\* the script builds the scene, calls init(), and the page runs
ScriptNext == BuildStep(1) \/ PageNext

SpecPage == BuildInit /\ [][ScriptNext]_vars

\* timers that are pending fire
SpecPageLive ==
  SpecPage /\ WF_vars(Dismiss) /\ WF_vars(LoaderOut) /\ WF_vars(LoaderHide)

(***************************************************************************)
(* The street view and the Maps JS script (app.js 632-668), on their own:  *)
(* calls of openStreetView, from the double click and from navStreet, and  *)
(* the onload events of the script elements.                               *)
(***************************************************************************)
\* calls of openStreetView that are followed
MaxOpens == 3

\* var mapsJsLoaded = false; var streetPanorama = null (app.js 632-633);
\* scripts[k] is the callback of the k-th script element appended, pending
\* while its onload has not fired
MapsStart(key) ==
  [phase |-> "used", key |-> key, mapsJsLoaded |-> FALSE, opens |-> 0,
   scripts |-> <<>>, pending |-> {}, alerts |-> 0,
   panoramas |-> 0, position |-> <<>>]

\* the callback openStreetView hands to ensureMapsJs (app.js 652-661)
ShowPanorama(mp, ll) ==
  IF mp.panoramas = 0
  THEN [mp EXCEPT !.panoramas = 1, !.position = ll]
  ELSE [mp EXCEPT !.position = ll]

\* app.js 635-643
ensureMapsJs(mp, ll) ==
  IF mp.mapsJsLoaded THEN ShowPanorama(mp, ll)
  ELSE IF ~mp.key THEN [mp EXCEPT !.alerts = @ + 1]
  ELSE [mp EXCEPT !.scripts = Append(@, ll), !.pending = @ \cup {Len(mp.scripts) + 1}]

MapsInit ==
  /\ RngIdle /\ BuildIdle
  /\ call = NoCall /\ pass = NoPass /\ ui = NoUi /\ toast = NoToast
  /\ maps \in {MapsStart(key) : key \in BOOLEAN}

\* openStreetView(lat, lon), app.js 645-662
OpenStreet ==
  /\ UNCHANGED <<rngVars, buildVars, call, pass, ui, toast>>
  /\ maps.opens < MaxOpens
  /\ \E p \in DOMAIN PlaceAt :
       maps' = ensureMapsJs([maps EXCEPT !.opens = @ + 1], PlaceAt[p])

\* s.onload of one script element: mapsJsLoaded = true; cb()
ScriptLoaded ==
  /\ UNCHANGED <<rngVars, buildVars, call, pass, ui, toast>>
  /\ \E k \in maps.pending :
       maps' = ShowPanorama([maps EXCEPT !.mapsJsLoaded = TRUE,
                                         !.pending = @ \ {k}],
                            maps.scripts[k])

MapsNext == OpenStreet \/ ScriptLoaded

SpecMaps == MapsInit /\ [][MapsNext]_vars

(***************************************************************************)
(* The ice toast (app.js 674-683), on its own: calls of showIceToast, from *)
(* updateCamera and from the double click, and its timers.                 *)
(***************************************************************************)
\* calls of showIceToast that are followed
MaxShows == 6

\* var iceToastTimer = null; the toast starts hidden.  timers holds the
\* pending timeouts: the 3500 ms one ("out") and the nested 350 ms one
\* ("hide"), each with the number of the call that started it
ToastStart ==
  [phase |-> "used", hidden |-> TRUE, out |-> FALSE, shows |-> 0,
   iceToastTimer |-> 0, timers |-> {}]

ToastInit ==
  /\ RngIdle /\ BuildIdle
  /\ call = NoCall /\ pass = NoPass /\ ui = NoUi /\ maps = NoMaps
  /\ toast = ToastStart

\* showIceToast(), app.js 675-683: the classes are removed, the timer in
\* iceToastTimer is cleared, a new one is started
ShowIceToast ==
  /\ UNCHANGED <<rngVars, buildVars, call, pass, ui, maps>>
  /\ toast.shows < MaxShows
  /\ LET id == toast.shows + 1
     IN  toast' = [toast EXCEPT
           !.hidden = FALSE, !.out = FALSE, !.shows = id,
           !.timers = (@ \ {[id |-> toast.iceToastTimer, kind |-> "out"]})
                        \cup {[id |-> id, kind |-> "out"]},
           !.iceToastTimer = id]

\* the 3500 ms timeout fires: class out, and the 350 ms timeout is started
ToastOut ==
  /\ UNCHANGED <<rngVars, buildVars, call, pass, ui, maps>>
  /\ \E t \in toast.timers :
       /\ t.kind = "out"
       /\ toast' = [toast EXCEPT
            !.out = TRUE,
            !.timers = (@ \ {t}) \cup {[id |-> t.id, kind |-> "hide"]}]

\* the 350 ms timeout fires: class hidden
ToastHide ==
  /\ UNCHANGED <<rngVars, buildVars, call, pass, ui, maps>>
  /\ \E t \in toast.timers :
       /\ t.kind = "hide"
       /\ toast' = [toast EXCEPT !.hidden = TRUE, !.timers = @ \ {t}]

ToastNext == ShowIceToast \/ ToastOut \/ ToastHide

SpecToast == ToastInit /\ [][ToastNext]_vars

(***************************************************************************)
(* Claims about the generator.                                             *)
(***************************************************************************)
\* the documented recurrence on the unsigned reading: (u*1664525+1013904223) mod 2^32
LcgUnsigned(u) == Low32(BigAdd(BigMul(u, LcgA), LcgC))

\* equality of two non-negative rationals
RatEq(x, y) == BigEq(BigMul(x.num, y.den), BigMul(y.num, x.den))

\* x < 1 for a non-negative rational
RatBelowOne(x) == BigLess(x.num, x.den)

\* C1: after one draw from any 32-bit state s the state is
\* (s*1664525 + 1013904223) mod 2^32 (unsigned reading) and the value
\* returned is that new unsigned state divided by 2^32.
C1_DrawIsStateOver2To32 ==
  gcall.fn # "none" =>
    /\ BigEq(Uint32(gseed), LcgUnsigned(Uint32(gcall.before)))
    /\ RatEq(gcall.ret, [num |-> Uint32(gseed), den |-> Two32])

Started(r) == run[r].pc # "unstarted"

OnSlot(inst, ring, slot) ==
  /\ inst.ring = ring
  /\ inst.slot = slot
  /\ inst.count = Rings[ring].count
  /\ RngGeq(inst.jit, -50)
  /\ RngLeq(inst.jit, 50)

\* C8: in every ring, instance i has its angle within 0.05 rad of the
\* evenly spaced slot i * 2*pi / count.
C8_AngleNearSlot ==
  /\ run[1].pc \notin {"unstarted", "angle", "done"} =>
       OnSlot(run[1].inst, run[1].ri, run[1].i)
  /\ run[1].meshes >= 1 =>
       /\ run[1].last.ring \in 1..NumRings
       /\ run[1].last.slot \in 0..(Rings[run[1].last.ring].count - 1)
       /\ OnSlot(run[1].last, run[1].last.ring, run[1].last.slot)

\* the last instance of the ring with count 80 and heights [1.4, 3.8] is placed
C8_Witness ==
  /\ run[1].meshes = 80
  /\ run[1].last.ring = 1
  /\ run[1].last.slot = 79
  /\ Rings[1].count = 80 /\ Rings[1].minH = 1400 /\ Rings[1].maxH = 3800
  /\ ~BigIsZero(run[1].last.jit.num)

RECURSIVE LcgIter(_, _)
LcgIter(u, n) == IF n = 0 THEN u ELSE LcgUnsigned(LcgIter(u, n - 1))

\* C9: the ornament field's generator starts at 42 and its first three
\* draws leave the states of the documented recurrence (the first being
\* 1083814273), each returned as state / 2^32.
C9_FirstThreeDraws ==
  /\ run[1].pc = "angle" /\ run[1].draws = 0 => run[1].seed = 42
  /\ BigEq(LcgIter(ToBig(42), 1), ToBig(1083814273))
  /\ (Started(1) /\ run[1].draws \in 1..3) =>
       /\ BigEq(Uint32(run[1].seed), LcgIter(ToBig(42), run[1].draws))
       /\ RatEq(run[1].ret,
                [num |-> LcgIter(ToBig(42), run[1].draws), den |-> Two32])

(***************************************************************************)
(* Claims about the projection, the material tiers and the fade.           *)
(***************************************************************************)
SouthernCutoff == -60

C5_PoleIsNinetyZero ==
  (call.fn = "uvToLatLon" /\ call.u = Half /\ call.v = Half)
  => call.ll = <<90 * AngleUnit, 0>>

C5_Witness ==
  /\ call.fn = "uvToLatLon"
  /\ 2 * call.u = UVDen
  /\ 2 * call.v = UVDen
  /\ call.ll[1] = 90 * AngleUnit

\* C6: every normalized height n in [0,1] gets exactly one tier, and the
\* tiers are shadow-rock = [0, 0.18], rock = (0.18, 0.38], ice = (0.38, 0.65],
\* snow = (0.65, 1].
C6_MaterialBands ==
  call.fn = "material" =>
    LET n == 100 * call.n
        g == NormGrid
    IN  /\ call.mat \in {"snow", "ice", "rock", "shadow"}
        /\ call.mat = "shadow" <=> (0 <= n /\ n <= 18 * g)
        /\ call.mat = "rock"   <=> (18 * g < n /\ n <= 38 * g)
        /\ call.mat = "ice"    <=> (38 * g < n /\ n <= 65 * g)
        /\ call.mat = "snow"   <=> (65 * g < n /\ n <= 100 * g)

\* a height exactly on a threshold falls in the lower tier
C6_Witness ==
  /\ call.fn = "material"
  /\ 100 * call.n = 65 * NormGrid
  /\ call.mat = "ice"

\* C7: fade(r) = (1 - min(r, 1))^p is non-increasing in r, 1 at r = 0,
\* 0 at r = 1 and for every r > 1, and never negative.
C7_FadeShape ==
  call.fn = "fade" =>
    /\ call.res \in 0..FadeScale
    /\ call.r = 0 => call.res = FadeScale
    /\ call.r >= FadeGrid => call.res = 0
    /\ call.r0 <= call.r => call.res0 >= call.res
    /\ call.r0 >= call.r => call.res0 <= call.res

\* a fade strictly inside the cap followed by one beyond its rim
C7_Witness ==
  /\ call.fn = "fade"
  /\ call.e = <<2, 5>>
  /\ call.r0 > 0 /\ call.r0 < FadeGrid
  /\ call.res0 > 0 /\ call.res0 < FadeScale
  /\ call.r > FadeGrid
  /\ call.res = 0

\* C10: latLonToUV(0, 0) is u = 0.5, v = 0.5 - (pi/2)/(pi*0.505)
\* = 0.5 - 1/1.01, which is below 0: outside the unit square.
C10_EquatorOffDisc ==
  (call.fn = "latLonToUV" /\ call.lat = 0 /\ call.lon = 0) =>
    /\ 2 * call.uv[1] = UVDen
    /\ 101 * (Half - call.uv[2]) = 100 * UVDen
    /\ 202 * call.uv[2] = -99 * UVDen
    /\ call.uv[2] < 0

C10_Witness ==
  /\ call.fn = "latLonToUV"
  /\ call.lat = 0
  /\ call.lon = 0
  /\ call.uv[2] \notin 0..UVDen

(***************************************************************************)
(* Claims about shape construction and the displacement passes.            *)
(***************************************************************************)
\* the parameters of the pass are not those of a shape: a radius that is
\* not positive, a zero height, coinciding minimum and maximum heights
InvalidShape ==
  \/ pass.shape = "cap" /\ pass.radius <= 0
  \/ pass.shape = "cone" /\ (pass.prm.base < 0 \/ pass.prm.h = 0
                              \/ pass.prm.minH = pass.prm.maxH)

C14_JitterScaledByHeight ==
  run[1].pc \in {"vz", "vy"} =>
    LET vert == run[1].vert
        vy   == ConeY(vert.idx, run[1].inst.segs, 2)
        t    == 1 - (vy + 1) \div 2
        Within(off) == BigLeq(off.num, BigMulSmall(off.den, t))
    IN  /\ t \in 0..1
        /\ vy = 1 => t = 0
        /\ vy = -1 => t = 1
        /\ Within(vert.dx)
        /\ run[1].pc = "vy" => Within(vert.dz)

\* after the first mesh, a base vertex moved in x and in z
C14_Witness ==
  /\ run[1].pc = "vy"
  /\ run[1].vert.idx > run[1].inst.segs
  /\ ~BigIsZero(run[1].vert.dx.num)
  /\ ~BigIsZero(run[1].vert.dz.num)
  /\ run[1].meshes >= 1

\* C15: a displacement pass (cone, wall, cap) visits each vertex of the base
\* shape exactly once and only rewrites coordinates: the vertex count stays
\* what it was when the geometry was created.
C15_VertexCountPreserved ==
  pass.shape # "none" =>
    /\ Len(pass.pos) = pass.count0
    /\ \A k \in 1..pass.count0 : pass.visits[k] = (IF k < pass.i THEN 1 ELSE 0)
    /\ pass.added => pass.i = pass.count0 + 1

\* a finished cap whose centre was pulled down
C15_Witness ==
  /\ pass.shape = "cap"
  /\ pass.added
  /\ pass.radius > 0
  /\ pass.pos[1].y < 0
  /\ Len(pass.pos) = 1 + Len(RimDirs)

\* C16: on every underside cap the radius ratio of a rim vertex is 1
\* (distance from the centre over the cap's own radius), so the fade, and
\* with it the displacement, is zero on the rim of the primary and of the
\* crevice layer.
C16_RimFadeIsZero ==
  (pass.shape = "cap" /\ pass.radius > 0) =>
    \A k \in 2..(pass.i - 1) :
      /\ pass.fades[k] = 0
      /\ pass.pos[k].y = pass.offset * FadeScale

(***************************************************************************)
(* Claims about the page.                                                  *)
(***************************************************************************)
\* C17: once construction is complete, no event, timer or frame changes the
\* generator state, the instances, their vertices or their materials.
C17_GeneratorFrozenAfterBuild ==
  [][run[1].pc = "done" => (run' = run /\ gseed' = gseed /\ gdraws' = gdraws)]_vars

\* the ice ring hidden and the camera moved, after all 265 instances
C17_Witness ==
  /\ run[1].pc = "done"
  /\ run[1].meshes = 265
  /\ ui.phase = "loaded"
  /\ ui.n = MaxEvents
  /\ ~ui.iceVisible
  /\ ui.camDist # 220

\* a step of a zoom handler: wheel, pinch, zoom-in, zoom-out
ZoomStep == Wheel \/ Pinch \/ ZoomIn \/ ZoomOut

\* a step that starts a texture load
LoadStarts ==
  IF ui.phase = "unloaded" THEN ui'.phase = "loaded" /\ ui'.loads > 0
  ELSE ui'.loads # ui.loads

\* C19 as stated: a zoom event changes state.camDist only and starts no
\* texture load; loads are started only by init, Reset and flyTo.
C19_ZoomChangesOnlyCamDist ==
  [][ /\ ZoomStep => ui' = [ui EXCEPT !.camDist = ui'.camDist, !.n = ui'.n]
      /\ LoadStarts => (init \/ Reset \/ ResultClick) ]_vars

\* C19: a zoom event changes state.camDist, and a pinch also
\* state.pinchDist, and nothing else; it starts no texture load; loads are
\* started only by init, Reset and flyTo.
C19_ZoomNeverLoads ==
  [][ /\ ZoomStep => ui' = [ui EXCEPT !.camDist = ui'.camDist,
                                      !.pinchDist = ui'.pinchDist, !.n = ui'.n]
      /\ (Wheel \/ ZoomIn \/ ZoomOut) => ui'.pinchDist = ui.pinchDist
      /\ LoadStarts => (init \/ Reset \/ ResultClick) ]_vars

\* zoomed all the way in with a key, the only load being that of init
C19_Witness ==
  /\ ui.phase = "loaded"
  /\ ui.key
  /\ ui.camDist = 110
  /\ ui.loads = 1

\* the timer cleared, "Ready." shown, the loader hidden, animate() started
Dismissed ==
  /\ ui.phase = "loaded"
  /\ ~ui.tick
  /\ ui.status = "ready"
  /\ ui.loader = "hidden"
  /\ ui.anim = 1

\* C20: whether or not a call of the try block throws, the progress timer is
\* eventually cleared, the status becomes "Ready.", the loader is hidden and
\* animate() has been started exactly once.
C20_LoaderAlwaysDismissed ==
  /\ (ui.phase = "loaded") ~> Dismissed
  /\ [](ui.phase = "loaded" => ui.anim <= 1)

\* dismissed although the first call of init threw
C20_Witness ==
  /\ ui.phase = "loaded"
  /\ ui.caught
  /\ ui.tex = "none"
  /\ ui.loader = "hidden"
  /\ ui.status = "ready"
  /\ ui.anim = 1

(***************************************************************************)
(* Claims about the order of the draws.                                    *)
(***************************************************************************)
\* the draws made for the current instance when the run is at each position,
\* for an instance of n vertices of which v are displaced
DrawsAt(pc, v, n) ==
  CASE pc = "h"     -> 1
    [] pc = "base"  -> 2
    [] pc = "segs"  -> 3
    [] pc = "vx"    -> 4 + 3 * v
    [] pc = "vz"    -> 5 + 3 * v
    [] pc = "vy"    -> 6 + 3 * v
    [] pc = "place" -> 4 + 3 * n
    [] pc = "rotY"  -> 5 + 3 * n
    [] pc = "rotZ"  -> 6 + 3 * n
    [] pc = "rotX"  -> 7 + 3 * n
    [] OTHER        -> 8 + 3 * n

\* the position that follows each position of an instance
Follows(pc, more) ==
  CASE pc = "angle" -> {"h"}
    [] pc = "h"     -> {"base"}
    [] pc = "base"  -> {"segs"}
    [] pc = "segs"  -> {"vx"}
    [] pc = "vx"    -> {"vz"}
    [] pc = "vz"    -> {"vy"}
    [] pc = "vy"    -> IF more THEN {"vx"} ELSE {"place"}
    [] pc = "place" -> {"rotY"}
    [] pc = "rotY"  -> {"rotZ"}
    [] pc = "rotZ"  -> {"rotX"}
    [] pc = "rotX"  -> {"angle", "done"}
    [] OTHER        -> {"angle"}

\* the instances completed before instance i of ring ri
Before(ri, i) ==
  LET RECURSIVE Sum(_)
      Sum(k) == IF k = 0 THEN 0 ELSE Rings[k].count + Sum(k - 1)
  IN  Sum(ri - 1) + i

\* C18: the generator is consumed in one fixed order: rings in table order,
\* instances in index order, per instance angle, height, base, polygon
\* order, per vertex in index order x, z, y, then placement and three
\* rotations; an instance of n vertices takes exactly 8 + 3n draws, none of
\* them between the draws of another instance.
C18_DrawOrderFixed ==
  [][ LET a == run[1]
          b == run'[1]
      IN  a.pc # "unstarted" =>
            /\ b.draws = a.draws + 1
            /\ b.pc \in Follows(a.pc, a.v + 1 < a.nVerts)
            /\ b.pc \in {"vz", "vy"} => b.vert.idx = a.v /\ b.v = a.v
            /\ a.pc = "vy" => b.v = a.v + 1
            /\ a.pc = "segs" => b.v = 0 /\ b.nVerts = 4 * b.inst.segs + 3
            /\ b.pc \notin {"angle", "done"} =>
                 /\ b.inst.ring = b.ri /\ b.inst.slot = b.i
                 /\ b.meshes = Before(b.ri, b.i)
                 /\ b.draws - b.first =
                      DrawsAt(b.pc, b.v, IF b.pc \in {"h", "base", "segs"}
                                         THEN 0 ELSE b.nVerts)
            /\ b.pc \in {"angle", "done"} =>
                 /\ b.meshes = a.meshes + 1
                 /\ b.last.ring = a.ri /\ b.last.slot = a.i
                 /\ b.draws - b.first = 8 + 3 * a.nVerts
                 /\ b.pc = "angle" => b.meshes = Before(b.ri, b.i)
                 /\ b.pc = "done" <=> a.ri = NumRings /\ a.i = Rings[a.ri].count - 1
    ]_vars

\* the second ring reached, its first pentagonal cone complete after
\* 8 + 3 * 23 draws
C18_Witness ==
  /\ run[1].pc = "angle"
  /\ run[1].ri = 2
  /\ run[1].last.ring = 2
  /\ run[1].last.segs = 5
  /\ run[1].nVerts = 23
  /\ run[1].draws - run[1].first = 77

(***************************************************************************)
(* Claims about the rim wall.                                              *)
(***************************************************************************)
\* |a|
Abs(a) == IF a < 0 THEN -a ELSE a

\* the wall vertices before the displacement
WallBefore == CylinderGeometry(WallRadius)

\* C21: every displaced wall vertex had rad > 0, lies at rad + strata +
\* bulge from the axis (to the rounding of whole units), in its original
\* direction, and the new radius is positive.
C21_WallRadiusDisplaced ==
  pass.shape = "wall" =>
    \A k \in 1..(pass.i - 1) :
      LET o   == WallBefore[k]
          n   == pass.pos[k]
          rad == Isqrt(o.x * o.x + o.z * o.z)
      IN  /\ rad > 0
          /\ \E w \in WallOffsets :
               /\ rad + w > 0
               /\ Abs(Isqrt(n.x * n.x + n.z * n.z) - (rad + w)) <= 2
          /\ Abs(o.x * n.z - o.z * n.x) <= Abs(o.x) + Abs(o.z)
          /\ o.x * n.x + o.z * n.z > 0

\* the whole wall displaced, one vertex pushed out and one pulled in
C21_Witness ==
  /\ pass.shape = "wall"
  /\ pass.added
  /\ \E j, k \in 1..Len(pass.pos) :
       /\ pass.pos[j].x * pass.pos[j].x + pass.pos[j].z * pass.pos[j].z
            > WallBefore[j].x * WallBefore[j].x + WallBefore[j].z * WallBefore[j].z
       /\ pass.pos[k].x * pass.pos[k].x + pass.pos[k].z * pass.pos[k].z
            < WallBefore[k].x * WallBefore[k].x + WallBefore[k].z * WallBefore[k].z

(***************************************************************************)
(* The displacement functions of the rim wall, called on their own.        *)
(***************************************************************************)
\* Math.sin at the multiples of 15 degrees, in thousandths
SineTable ==
  << 0, 259, 500, 707, 866, 966, 1000, 966, 866, 707, 500, 259, 0, -259, -500, -707, -866, -966, -1000, -966, -866, -707, -500, -259 >>

\* a full turn (2 * pi) in steps of the table
Turn == Len(SineTable)

Sine(a) == SineTable[(a % Turn) + 1]

\* the sine terms of a draft: the factors of y and th in tenths, the phase
\* to the nearest step of the table, the amplitude in thousandths;
\* the variant has one factor of 2.5
WallTermsFractional(draft) ==
  [strata |-> << [ky |-> 90, kth |-> 25, ph |-> 0, amp |-> 55],
                 [ky |-> 220, kth |-> 80, ph |-> 0, amp |-> 25],
                 [ky |-> 500, kth |-> 150, ph |-> 0, amp |-> 12] >>,
   bulge  |-> << [ky |-> 0, kth |-> 50, ph |-> 2, amp |-> 140],
                 [ky |-> 0, kth |-> 120, ph |-> 7, amp |-> 70],
                 [ky |-> 0, kth |-> 280, ph |-> 12, amp |-> 35] >>,
   ripple |-> << [ky |-> 50, kth |-> 90, ph |-> 0, amp |-> 45] >>]

WallTerms(draft) ==
  IF draft = "app.js"
  THEN [strata |-> << [ky |-> 90, kth |-> 30, ph |-> 0, amp |-> 55],
                      [ky |-> 220, kth |-> 80, ph |-> 0, amp |-> 25],
                      [ky |-> 500, kth |-> 150, ph |-> 0, amp |-> 12] >>,
        bulge  |-> << [ky |-> 0, kth |-> 50, ph |-> 2, amp |-> 140],
                      [ky |-> 0, kth |-> 120, ph |-> 7, amp |-> 70],
                      [ky |-> 0, kth |-> 280, ph |-> 12, amp |-> 35] >>,
        ripple |-> << [ky |-> 50, kth |-> 90, ph |-> 0, amp |-> 45] >>]
  ELSE [strata |-> << [ky |-> 80, kth |-> 30, ph |-> 0, amp |-> 60],
                      [ky |-> 200, kth |-> 70, ph |-> 0, amp |-> 30],
                      [ky |-> 450, kth |-> 130, ph |-> 0, amp |-> 15] >>,
        bulge  |-> << [ky |-> 0, kth |-> 60, ph |-> 2, amp |-> 120],
                      [ky |-> 0, kth |-> 140, ph |-> 5, amp |-> 60],
                      [ky |-> 0, kth |-> 310, ph |-> 11, amp |-> 30] >>,
        ripple |-> << [ky |-> 60, kth |-> 110, ph |-> 0, amp |-> 40] >>]

\* Math.sin(y * ky + th * kth + ph) * amp, summed over the terms
RECURSIVE SineSum(_, _, _, _)
SineSum(terms, k, th, y) ==
  IF k > Len(terms) THEN 0
  ELSE LET t == terms[k]
       IN  Sine((t.ky * y) \div 10 + (t.kth * th) \div 10 + t.ph) * t.amp
           + SineSum(terms, k + 1, th, y)

\* strata, bulge and the vertical ripple at the angle th and the height y
WallDisplacement(draft, th, y) ==
  LET terms == WallTerms(draft)
  IN  [strata |-> SineSum(terms.strata, 1, th, y),
       bulge  |-> SineSum(terms.bulge, 1, th, y),
       ripple |-> SineSum(terms.ripple, 1, th, y)]

\* heights of the wall, in steps of the table
MaxPhase == 5

\* the displacement at an angle of (-pi, pi] and at the same angle a turn on
Displace ==
  /\ UNCHANGED <<rngVars, buildVars, pass, ui, domVars>>
  /\ call = NoCall
  /\ \E draft \in {"app.js", "part_000"}, th \in (1 - Turn \div 2)..(Turn \div 2),
        y \in 0..MaxPhase :
       call' = [fn |-> "buildIceWall", draft |-> draft, th |-> th, y |-> y,
                at |-> WallDisplacement(draft, th, y),
                wrapped |-> WallDisplacement(draft, th + Turn, y)]

WallNext == Displace

SpecWall == CallsInit /\ [][WallNext]_vars

\* C22: the strata, the bulge and the vertical ripple of the rim wall are
\* the same at theta and at theta + 2 * pi, for every height.
C22_WallPeriodicInTheta ==
  call.fn = "buildIceWall" => call.at = call.wrapped

\* the seam theta = pi, where all three are non-zero
C22_Witness ==
  /\ call.fn = "buildIceWall"
  /\ call.th = Turn \div 2
  /\ call.at.strata # 0
  /\ call.at.bulge # 0
  /\ call.at.ripple # 0
  /\ call.wrapped = call.at

(***************************************************************************)
(* Claims about the underside caps.                                        *)
(***************************************************************************)
\* C23: on every underside cap built by the code, the y written for a
\* vertex is at most the layer's offset, and is the offset when the clamped
\* sum or the fade is zero; x and z stay as the geometry gave them.
C23_CapNeverAboveBase ==
  (pass.shape = "cap" /\ pass.radius > 0) =>
    \A k \in 1..(pass.i - 1) :
      /\ pass.pos[k].y <= pass.offset * FadeScale
      /\ (pass.hangs[k] = 0 \/ pass.fades[k] = 0)
           => pass.pos[k].y = pass.offset * FadeScale
      /\ pass.pos[k].x = CircleGeometry(pass.radius)[k].x
      /\ pass.pos[k].z = CircleGeometry(pass.radius)[k].z

\* a crevice layer complete, its centre hanging below the offset and
\* another vertex at the offset
C23_Witness ==
  /\ pass.shape = "cap"
  /\ pass.fn = "buildBedrock.crevice"
  /\ pass.added
  /\ pass.offset < 0
  /\ pass.pos[1].y < pass.offset * FadeScale
  /\ \E k \in 2..Len(pass.pos) : pass.pos[k].y = pass.offset * FadeScale

(***************************************************************************)
(* Claims about the double click and the street view.                      *)
(***************************************************************************)
\* C24: a double click that hits the disc top unprojects the pick with
\* uvToLatLon; below the southern threshold the street view is not opened
\* and hintShown stays; otherwise the street view is opened at exactly that
\* (lat, lon) and the hint toast is hidden once; a miss changes nothing.
C24_DoubleClickOpensAtPick ==
  [][DblClick =>
       \E hit \in Hits :
         IF hit = <<>> THEN ui' = Event(ui)
         ELSE LET ll == uvToLatLon(hit[1], hit[2])
              IN  IF ll[1] < SouthernCutoff * AngleUnit
                  THEN /\ ui'.streetMode = ui.streetMode
                       /\ ui'.overlayHidden = ui.overlayHidden
                       /\ ui'.streetCoords = ui.streetCoords
                       /\ ui'.hintShown = ui.hintShown
                       /\ ui'.hintHidden = ui.hintHidden
                  ELSE /\ ui'.streetMode
                       /\ ~ui'.overlayHidden
                       /\ ui'.streetCoords = ll
                       /\ ui'.hintShown
                       /\ ui'.hintHidden
                       /\ ui.hintShown => ui'.hintHidden = ui.hintHidden
     ]_vars

\* the street view open at the coordinates of a pick off the pole, after a
\* search has moved the target elsewhere
C24_Witness ==
  /\ ui.phase = "loaded"
  /\ ui.streetMode
  /\ ui.target # 0
  /\ ui.streetCoords = uvToLatLon(0, 0)
  /\ ui.hintShown
  /\ ui.hintHidden

\* a pick inside the clipped disc of the top face: length(uv - 0.5) <= 0.5
InDisc(u, v) == (u - Half) * (u - Half) + (v - Half) * (v - Half) <= Half * Half

\* C25: for every pick (u, v) of the unit square the latitude returned by
\* uvToLatLon is above the southern threshold of -60, and at least 44.5
\* degrees inside the clipped disc, so the double click never takes the
\* branch below the threshold.
C25_PickAboveThreshold ==
  call.fn = "uvToLatLon" =>
    /\ call.ll[1] > SouthernCutoff * AngleUnit
    /\ InDisc(call.u, call.v) => 10 * call.ll[1] >= 445 * AngleUnit

\* a pick on the rim of the disc, and one at a corner of the square
C25_Witness ==
  /\ call.fn = "uvToLatLon"
  /\ \/ call.u = 0 /\ call.v = Half /\ 10 * call.ll[1] < 446 * AngleUnit
     \/ call.u = 0 /\ call.v = 0 /\ ~InDisc(call.u, call.v)
                   /\ call.ll[1] < 30 * AngleUnit

C27_MapsScriptAppendedOnce ==
  (maps.phase = "used" /\ maps.key) =>
    /\ Len(maps.scripts) <= 1
    /\ maps.panoramas <= 1

\* C28: after a call of showIceToast the toast stays neither out nor hidden
\* until the 3500 ms timer of the most recent call fires.
C28_ToastShownUntilItsTimer ==
  (toast.phase = "used"
     /\ [id |-> toast.iceToastTimer, kind |-> "out"] \in toast.timers) =>
    (~toast.hidden /\ ~toast.out)

(***************************************************************************)
(* Claims about the satellite switch and the street mode.                  *)
(***************************************************************************)
\* C29: while the satellite switch is off and hasTex is 0, the end of a
\* texture load started earlier (its completion callback, or its error
\* fallback to the placeholder) leaves hasTex at 0.
C29_SwitchedOffStaysOff ==
  [][(LoadEnds /\ ~ui.switches["toggleSatellite"] /\ ui.hasTex = 0)
       => ui'.hasTex = 0]_vars

\* C30: state.streetMode is true exactly when the street overlay is not
\* hidden and exactly when navStreet is the active nav item; a frame
\* advances camTheta by the auto-rotation step only when neither streetMode
\* nor dragging is set.
C30_StreetModeConsistent ==
  /\ [](ui.phase = "loaded" =>
          /\ ui.streetMode <=> ~ui.overlayHidden
          /\ ui.streetMode <=> ui.nav = "navStreet")
  /\ [][(AnimateFrame \/ Dismiss) =>
          ui'.camTheta = IF ui.streetMode \/ ui.dragging THEN ui.camTheta
                         ELSE "moved"]_vars

\* the street view open before the first frame, which then has not turned
\* the camera
C30_Witness ==
  /\ ui.phase = "loaded"
  /\ ui.streetMode
  /\ ~ui.overlayHidden
  /\ ui.nav = "navStreet"
  /\ ui.anim = 1
  /\ ui.camTheta = "initial"
====
